---------------------------- MODULE Spec2Model ----------------------------
(***************************************************************************)
(* Model of the electric-vehicle warehouse ETL (src/q3/etl_script.py).     *)
(*                                                                         *)
(* A table (pandas DataFrame) is a sequence of rows; a row is a record.    *)
(* Text cells are strings, and the missing text cell is the string "NaN"   *)
(* (pandas reads the text NaN of a CSV as a missing value).  Numeric cells *)
(* are <<v>> for the number v and <<>> for the missing value.  A Vehicle   *)
(* Location is the sequence of its characters, <<>> when it is missing     *)
(* (an empty CSV cell).  pandas compares missing values as equal in        *)
(* drop_duplicates and in merge keys; so does equality of these cells.     *)
(***************************************************************************)
EXTENDS Integers, Sequences, FiniteSets, TLC

\* The largest number of rows of the dataset behind data_url.
MaxRows == 3

\* datetime.now().year, read by _create_derived_fields.
current_year == 2026

NaN == "NaN"
NaNum == <<>>
Num(v) == <<v>>
Val(c) == c[1]

BEV == "Battery Electric Vehicle (BEV)"
PHEV == "Plug-in Hybrid Electric Vehicle (PHEV)"
CAFVEligible == "Clean Alternative Fuel Vehicle Eligible"
CAFVLowRange == "Not eligible due to low battery range"
CAFVNotResearched == "Eligibility unknown as battery range has not been researched"

-----------------------------------------------------------------------------
(* Sample rows of the source dataset.                                      *)

LocSeattle == <<"P", "O", "I", "N", "T", " ", "(", "-", "1", "2", "2", ".", "3", "3", " ", "4", "7", ".", "6", "0", ")">>
LocSeattleMoved == <<"P", "O", "I", "N", "T", " ", "(", "-", "1", "2", "2", ".", "3", "0", " ", "4", "7", ".", "6", "1", ")">>
LocUnknown == <<"U", "n", "k", "n", "o", "w", "n">>
LocOneToken == <<"P", "O", "I", "N", "T", " ", "(", "-", "1", "2", "2", ".", "3", "3", ")">>
LocBadLon == <<"P", "O", "I", "N", "T", " ", "(", "a", "b", "c", " ", "4", "7", ".", "6", "0", ")">>
LocBadLat == <<"P", "O", "I", "N", "T", " ", "(", "-", "1", "2", "2", ".", "3", "3", " ", "a", "b", "c", ")">>

RowBase ==
    [VIN |-> "5YJ3E1EA0K", County |-> "King", City |-> "Seattle", State |-> "WA",
     PostalCode |-> "98101", ModelYear |-> Num(2020), Make |-> "TESLA",
     Model |-> "MODEL 3", ElectricVehicleType |-> BEV, CAFV |-> CAFVEligible,
     ElectricRange |-> Num(150), BaseMSRP |-> Num(40000),
     LegislativeDistrict |-> "43", DOLVehicleID |-> Num(1001),
     VehicleLocation |-> LocSeattle, ElectricUtility |-> "CITY OF SEATTLE",
     CensusTract |-> "53033007100"]

\* The same six location columns as RowBase, another Vehicle Location.
RowMoved == [RowBase EXCEPT !.VehicleLocation = LocSeattleMoved]

\* Every cell missing.
RowBlank ==
    [VIN |-> NaN, County |-> NaN, City |-> NaN, State |-> NaN,
     PostalCode |-> NaN, ModelYear |-> NaNum, Make |-> NaN,
     Model |-> NaN, ElectricVehicleType |-> NaN, CAFV |-> NaN,
     ElectricRange |-> NaNum, BaseMSRP |-> NaNum,
     LegislativeDistrict |-> NaN, DOLVehicleID |-> NaNum,
     VehicleLocation |-> <<>>, ElectricUtility |-> NaN,
     CensusTract |-> NaN]

RowPHEV ==
    [RowBase EXCEPT !.VIN = "1N4AZ0CP5D", !.ModelYear = Num(2010),
                    !.ElectricVehicleType = PHEV, !.CAFV = CAFVLowRange,
                    !.ElectricRange = Num(60), !.BaseMSRP = Num(0),
                    !.VehicleLocation = LocUnknown, !.PostalCode = "98109"]

\* An unmapped vehicle type, a model year beyond the last bin, no State.
RowOdd ==
    [RowBase EXCEPT !.VIN = "KNDCE3LG2L", !.ModelYear = Num(2030),
                    !.ElectricVehicleType = "Fuel Cell", !.CAFV = CAFVNotResearched,
                    !.State = NaN, !.VehicleLocation = LocOneToken,
                    !.PostalCode = "98052", !.ElectricRange = Num(0)]

\* The placeholder itself in the categorical cells.
RowPlaceholder ==
    [RowBase EXCEPT !.ModelYear = Num(2015), !.ElectricVehicleType = "Unknown",
                    !.CAFV = "Unknown", !.VehicleLocation = LocBadLon,
                    !.PostalCode = "98004", !.ElectricUtility = NaN]

RowBadLat ==
    [RowBase EXCEPT !.ModelYear = Num(2021), !.CAFV = "Exempt",
                    !.VehicleLocation = LocBadLat, !.PostalCode = "98115",
                    !.BaseMSRP = NaNum]

SampleRows == {RowBase, RowMoved, RowBlank, RowPHEV, RowOdd, RowPlaceholder, RowBadLat}

RECURSIVE SeqsUpTo(_, _)
SeqsUpTo(S, n) ==
    IF n = 0 THEN {<<>>}
    ELSE LET shorter == SeqsUpTo(S, n - 1)
         IN  shorter \cup {Append(s, x) : s \in shorter, x \in S}

Datasets == SeqsUpTo(SampleRows, MaxRows)

\* The sample scenario of three rows.
SampleScenario ==
    << RowBase,
       [RowBase EXCEPT !.ElectricRange = NaNum, !.BaseMSRP = NaNum,
                       !.ElectricVehicleType = NaN],
       [RowBase EXCEPT !.ModelYear = Num(2010), !.ElectricRange = Num(60),
                       !.BaseMSRP = Num(0), !.ElectricVehicleType = PHEV] >>

-----------------------------------------------------------------------------
(* clean_and_transform                                                     *)

FillNa(v, fill) == IF v = NaN THEN fill ELSE v
FillNaNum(c, fill) == IF c = NaNum THEN fill ELSE c

\* Median with a missing range counted as 0.
MedianMissingAsZero(cells) ==
    LET filled == [i \in DOMAIN cells |-> IF cells[i] = NaNum THEN 0 ELSE Val(cells[i])]
        n == Len(cells)
        Kth(k) == filled[CHOOSE i \in DOMAIN filled :
                      /\ Cardinality({j \in DOMAIN filled : filled[j] < filled[i]}) < k
                      /\ Cardinality({j \in DOMAIN filled : filled[j] <= filled[i]}) >= k]
    IN  IF n = 0 THEN NaNum
        ELSE IF n % 2 = 1 THEN Num(Kth((n + 1) \div 2))
        ELSE Num((Kth(n \div 2) + Kth(n \div 2 + 1)) \div 2)

\* Series.median(): the middle value of the non-missing values, the mean of
\* the two middle values when their number is even, missing when there is
\* none.  (The sample ranges are even, so the mean of two is an integer.)
Median(cells) ==
    LET present == {i \in DOMAIN cells : cells[i] # NaNum}
        n == Cardinality(present)
        \* the k-th smallest of the non-missing values
        Kth(k) == Val(cells[CHOOSE i \in present :
                        /\ Cardinality({j \in present : Val(cells[j]) < Val(cells[i])}) < k
                        /\ Cardinality({j \in present : Val(cells[j]) <= Val(cells[i])}) >= k])
    IN  IF n = 0 THEN NaNum
        ELSE IF n % 2 = 1 THEN Num(Kth((n + 1) \div 2))
        ELSE Num((Kth(n \div 2) + Kth(n \div 2 + 1)) \div 2)

HandleMissingValues(df) ==
    LET electric_range_median == Median([i \in DOMAIN df |-> df[i].ElectricRange])
    IN  [i \in DOMAIN df |->
            [df[i] EXCEPT
                !.County = FillNa(@, "Unknown"),
                !.City = FillNa(@, "Unknown"),
                !.Make = FillNa(@, "Unknown"),
                !.Model = FillNa(@, "Unknown"),
                !.ElectricVehicleType = FillNa(@, "Unknown"),
                !.CAFV = FillNa(@, "Unknown"),
                !.ElectricUtility = FillNa(@, "Unknown"),
                !.ElectricRange = FillNaNum(@, electric_range_median),
                !.BaseMSRP = FillNaNum(@, Num(0)),
                !.PostalCode = FillNa(@, "Unknown"),
                !.LegislativeDistrict = FillNa(@, "Unknown"),
                !.CensusTract = FillNa(@, "Unknown")]]

\* Series.map(dict): the value of the key, missing for a key not in the dict.
ev_type_mapping(s) ==
    CASE s = BEV -> Num(1)
      [] s = PHEV -> Num(2)
      [] s = "Unknown" -> Num(0)
      [] OTHER -> NaNum

cafv_mapping(s) ==
    CASE s = CAFVEligible -> Num(1)
      [] s = CAFVLowRange -> Num(2)
      [] s = CAFVNotResearched -> Num(3)
      [] s = "Unknown" -> Num(0)
      [] OTHER -> NaNum

\* EVTypeCode with the unmapped types filled with -1.
EVTypeCodeFillMinusOne(s) == Val(FillNaNum(ev_type_mapping(s), Num(-1)))

\* .map(mapping).fillna(0).astype(int)
EVTypeCode(s) == Val(FillNaNum(ev_type_mapping(s), Num(0)))
CAFVCode(s) == Val(FillNaNum(cafv_mapping(s), Num(0)))

EncodeCategoricalVariables(df) ==
    [i \in DOMAIN df |->
        df[i] @@ [EV_Type_Code |-> EVTypeCode(df[i].ElectricVehicleType),
                  CAFV_Code |-> CAFVCode(df[i].CAFV)]]

\* (Model Year // 10) * 10
ModelDecade(year) == IF year = NaNum THEN NaNum ELSE Num((Val(year) \div 10) * 10)

\* pd.cut(bins=[0, 2015, 2020, current_year + 1], include_lowest=True): the
\* intervals [0, 2015], (2015, 2020], (2020, current_year + 1]; a value in
\* none of them, or a missing one, has no category.
YearCategory(year) ==
    IF year = NaNum THEN NaN
    ELSE LET y == Val(year)
         IN  CASE 0 <= y /\ y <= 2015 -> "Pre-2015"
               [] 2015 < y /\ y <= 2020 -> "2015-2020"
               [] 2020 < y /\ y <= current_year + 1 -> "2021+"
               [] OTHER -> NaN

\* hashlib.md5(str(x).encode()).hexdigest()[:10] of the sample VINs.
Md5Prefix(vin) ==
    CASE vin = "5YJ3E1EA0K" -> "22d4e58b35"
      [] vin = "1N4AZ0CP5D" -> "42f5c77fc4"
      [] vin = "KNDCE3LG2L" -> "f63f9d1999"

VINHash(vin) == IF vin # NaN THEN Md5Prefix(vin) ELSE "Unknown"

CreateDerivedFields(df) ==
    [i \in DOMAIN df |->
        df[i] @@ [Model_Decade |-> ModelDecade(df[i].ModelYear),
                  Year_Category |-> YearCategory(df[i].ModelYear),
                  VIN_Hash |-> VINHash(df[i].VIN)]]

CleanedTable(raw) ==
    CreateDerivedFields(EncodeCategoricalVariables(HandleMissingValues(raw)))

-----------------------------------------------------------------------------
(* create_dimensional_model: the dimension tables                          *)

Project(row, cols) == [c \in cols |-> row[c]]

\* DataFrame.drop_duplicates().reset_index(drop=True): the first occurrence of
\* every row, in the order of the table.
DropDuplicates(df) ==
    LET keep == {i \in DOMAIN df : \A j \in 1..(i - 1) : df[j] # df[i]}
    IN  [k \in 1..Cardinality(keep) |->
            df[CHOOSE i \in keep : Cardinality({j \in keep : j <= i}) = k]]

\* str.replace(pat, ''): every occurrence of pat, left to right, removed.
RECURSIVE RemoveAll(_, _)
RemoveAll(s, pat) ==
    IF s = <<>> THEN <<>>
    ELSE IF Len(s) >= Len(pat) /\ SubSeq(s, 1, Len(pat)) = pat
         THEN RemoveAll(SubSeq(s, Len(pat) + 1, Len(s)), pat)
         ELSE <<Head(s)>> \o RemoveAll(Tail(s), pat)

\* str.split(): the maximal runs of characters other than white space.
RECURSIVE SplitAcc(_, _, _)
SplitAcc(s, cur, out) ==
    LET flushed == IF cur = <<>> THEN out ELSE Append(out, cur)
    IN  IF s = <<>> THEN flushed
        ELSE IF Head(s) = " " THEN SplitAcc(Tail(s), <<>>, flushed)
        ELSE SplitAcc(Tail(s), Append(cur, Head(s)), out)

Split(s) == SplitAcc(s, <<>>, <<>>)

DigitChars == <<"0", "1", "2", "3", "4", "5", "6", "7", "8", "9">>
IsDigit(c) == \E d \in DOMAIN DigitChars : DigitChars[d] = c
DigitVal(c) == (CHOOSE d \in DOMAIN DigitChars : DigitChars[d] = c) - 1

RECURSIVE DigitsToInt(_)
DigitsToInt(ds) ==
    IF ds = <<>> THEN 0
    ELSE DigitsToInt(SubSeq(ds, 1, Len(ds) - 1)) * 10 + DigitVal(ds[Len(ds)])

Unsigned(tok) == IF tok # <<>> /\ Head(tok) \in {"-", "+"} THEN Tail(tok) ELSE tok

\* float(tok) succeeds on a decimal literal: an optional sign, digits with at
\* most one point among them, at least one digit.  (The exponent, inf and nan
\* forms float() also accepts do not occur in the sample locations.)
IsFloat(tok) ==
    LET body == Unsigned(tok)
    IN  /\ \A i \in DOMAIN body : IsDigit(body[i]) \/ body[i] = "."
        /\ Cardinality({i \in DOMAIN body : body[i] = "."}) <= 1
        /\ \E i \in DOMAIN body : IsDigit(body[i])

\* The value of float(tok), in hundredths (the sample locations have two
\* decimals).
ToFloat(tok) ==
    LET body == Unsigned(tok)
        dots == {i \in DOMAIN body : body[i] = "."}
        point == IF dots = {} THEN Len(body) + 1 ELSE CHOOSE i \in dots : TRUE
        whole == SubSeq(body, 1, point - 1)
        frac == SubSeq(SubSeq(body, point + 1, Len(body)) \o <<"0", "0">>, 1, 2)
        magnitude == DigitsToInt(whole) * 100 + DigitsToInt(frac)
    IN  IF tok # <<>> /\ Head(tok) = "-" THEN 0 - magnitude ELSE magnitude

\* The body of the iterrows loop: Longitude is assigned before float() is
\* applied to the second token, and the bare except swallows any error.
ParseVehicleLocation(loc) ==
    LET unparsed == [Latitude |-> NaNum, Longitude |-> NaNum]
    IN  IF loc # <<>> /\ loc # LocUnknown
        THEN LET coords == Split(RemoveAll(RemoveAll(loc,
                               <<"P", "O", "I", "N", "T", " ", "(">>), <<")">>))
             IN  IF Len(coords) = 2
                 THEN IF ~IsFloat(coords[1]) THEN unparsed
                      ELSE IF ~IsFloat(coords[2])
                           THEN [Latitude |-> NaNum, Longitude |-> Num(ToFloat(coords[1]))]
                           ELSE [Latitude |-> Num(ToFloat(coords[2])),
                                 Longitude |-> Num(ToFloat(coords[1]))]
                 ELSE unparsed
        ELSE unparsed

\* The columns the fact builder joins on, per dimension.
LocationKey == {"County", "City", "State", "PostalCode", "LegislativeDistrict", "CensusTract"}
VehicleKey == {"Make", "Model", "ElectricVehicleType", "CAFV", "EV_Type_Code", "CAFV_Code"}
UtilityKey == {"ElectricUtility"}
TimeKey == {"ModelYear", "Model_Decade", "Year_Category"}

\* The columns _create_location_dimension deduplicates on.
location_cols == LocationKey \cup {"VehicleLocation"}

CreateLocationDimension(cleaned) ==
    LET location_data == DropDuplicates([i \in DOMAIN cleaned |-> Project(cleaned[i], location_cols)])
    IN  [i \in DOMAIN location_data |->
            [location_id |-> Num(i)]
            @@ Project(location_data[i], LocationKey)
            @@ ParseVehicleLocation(location_data[i].VehicleLocation)]

CreateVehicleDimension(cleaned) ==
    LET vehicle_data == DropDuplicates([i \in DOMAIN cleaned |-> Project(cleaned[i], VehicleKey)])
    IN  [i \in DOMAIN vehicle_data |-> [vehicle_id |-> Num(i)] @@ vehicle_data[i]]

CreateUtilityDimension(cleaned) ==
    LET utility_data == DropDuplicates([i \in DOMAIN cleaned |-> Project(cleaned[i], UtilityKey)])
    IN  [i \in DOMAIN utility_data |-> [utility_id |-> Num(i)] @@ utility_data[i]]

CreateTimeDimension(cleaned) ==
    LET time_data == DropDuplicates([i \in DOMAIN cleaned |-> Project(cleaned[i], TimeKey)])
    IN  [i \in DOMAIN time_data |-> [time_id |-> Num(i)] @@ time_data[i]]

DimOrder == <<"dim_location", "dim_vehicle", "dim_utility", "dim_time">>
DimNames == {DimOrder[i] : i \in DOMAIN DimOrder}
FactName == "fact_vehicle_registration"

\* self.dimension_tables after the four _create_*_dimension calls.
CreateDimensions(cleaned) ==
    [n \in DimNames |->
        CASE n = "dim_location" -> CreateLocationDimension(cleaned)
          [] n = "dim_vehicle" -> CreateVehicleDimension(cleaned)
          [] n = "dim_utility" -> CreateUtilityDimension(cleaned)
          [] n = "dim_time" -> CreateTimeDimension(cleaned)]

-----------------------------------------------------------------------------
(* create_dimensional_model: the fact table                                *)

RECURSIVE Flatten(_)
Flatten(ss) == IF ss = <<>> THEN <<>> ELSE Head(ss) \o Flatten(Tail(ss))

\* Merge as a SQL join: a row with a missing key cell matches nothing.  (Of
\* the join columns, cleaning leaves State, Model Year, Model_Decade and
\* Year_Category possibly missing.)
MergeSqlNulls(left, right, on, cols) ==
    Flatten([i \in DOMAIN left |->
        LET missing == \/ "State" \in on /\ left[i].State = NaN
                       \/ "ModelYear" \in on /\ left[i].ModelYear = NaNum
                       \/ "Year_Category" \in on /\ left[i].Year_Category = NaN
            matches == IF missing THEN <<>>
                       ELSE SelectSeq(right, LAMBDA r : \A c \in on : r[c] = left[i][c])
        IN  IF matches = <<>>
            THEN << left[i] @@ [c \in cols |-> NaNum] >>
            ELSE [k \in DOMAIN matches |-> left[i] @@ Project(matches[k], cols)]])

\* left.merge(right, on=on, how='left'): every left row, in order, once per
\* right row with the same key (missing keys match each other), carrying the
\* other columns of that right row; once with those columns missing when no
\* right row has its key.  cols are the columns of right that are not in on.
Merge(left, right, on, cols) ==
    Flatten([i \in DOMAIN left |->
        LET matches == SelectSeq(right, LAMBDA r : \A c \in on : r[c] = left[i][c])
        IN  IF matches = <<>>
            THEN << left[i] @@ [c \in cols |-> NaNum] >>
            ELSE [k \in DOMAIN matches |-> left[i] @@ Project(matches[k], cols)]])

\* fact_data after the four merges.
JoinedData(cleaned, dims) ==
    LET with_location == Merge(cleaned, dims["dim_location"], LocationKey,
                               {"location_id", "Latitude", "Longitude"})
        with_vehicle == Merge(with_location, dims["dim_vehicle"], VehicleKey, {"vehicle_id"})
        with_utility == Merge(with_vehicle, dims["dim_utility"], UtilityKey, {"utility_id"})
    IN  Merge(with_utility, dims["dim_time"], TimeKey, {"time_id"})

fact_cols == {"location_id", "vehicle_id", "utility_id", "time_id",
              "BaseMSRP", "ElectricRange", "DOLVehicleID", "VIN_Hash"}

CreateFactTable(cleaned, dims) ==
    LET fact_data == JoinedData(cleaned, dims)
    IN  [i \in DOMAIN fact_data |->
            [registration_id |-> Num(i)] @@ Project(fact_data[i], fact_cols)]

-----------------------------------------------------------------------------
(* The pipeline object, the store and the file system                      *)

None == <<>>
Some(x) == <<x>>
Get(o) == o[1]
EmptyDict == [n \in {} |-> <<>>]

VARIABLES
    source,     \* the dataset behind data_url
    etl,        \* the EVDataETL object: raw_data, cleaned_data, dimension_tables, fact_table
    store,      \* the SQLite file: its tables and the names of its indexes
    files,      \* the file system: directories made, and files with their tables
    conn,       \* the last sqlite3 connection: "none", "open" or "closed"
    outcome,    \* the last call: its name, arguments, the error it raised, what it printed, the stages it ran
    runs        \* the store as the last two runs of main that got past the load left it

vars == <<source, etl, store, files, conn, outcome, runs>>

\* EVDataETL.__init__
NewETL ==
    [raw_data |-> None, cleaned_data |-> None,
     dimension_tables |-> EmptyDict, fact_table |-> None]

\* What a stage works on and leaves behind.
World(e, st, fs, cn) ==
    [etl |-> e, store |-> st, files |-> fs, conn |-> cn,
     error |-> "none", output |-> <<>>, trace |-> <<>>]

Enter(w, stage) == [w EXCEPT !.trace = Append(@, stage), !.output = <<>>]
Raise(w, err) == [w EXCEPT !.error = err]

\* fault: "none", or "network" when requests.get or raise_for_status raises.
ExtractData(w0, data, fault) ==
    LET w == Enter(w0, "extract_data")
    IN  IF fault = "network" THEN Raise(w, "RequestException")
        ELSE [w EXCEPT !.files.content = ("temp_ev_data.csv" :> data) @@ @,
                       !.etl.raw_data = Some(data)]

\* format(x, '.1f') of x = num / den, in tenths: rounded to the nearest tenth,
\* a tie to the even one.
RoundTenths(num, den) ==
    LET q == (num * 10) \div den
        r == (num * 10) % den
    IN  IF 2 * r < den THEN q
        ELSE IF 2 * r > den THEN q + 1
        ELSE IF q % 2 = 0 THEN q ELSE q + 1

RECURSIVE Sum(_)
Sum(values) == IF values = <<>> THEN 0 ELSE values[1] + Sum(Tail(values))

\* Series.dropna(), and with positive_only the filter series[series > 0].
ValidValues(raw, col, positive_only) ==
    LET present == SelectSeq([i \in DOMAIN raw |-> raw[i][col]], LAMBDA c : c # NaNum)
        values == [i \in DOMAIN present |-> Val(present[i])]
    IN  IF positive_only THEN SelectSeq(values, LAMBDA v : v > 0) ELSE values

\* The statistics printed for a field, of which the model keeps the number
\* of values, min(), max() and mean() (in hundredths, as ':.2f' prints it).
\* On a series of no values pandas gives each of them as missing (nan).
Statistics(values) ==
    LET n == Len(values)
        Least == CHOOSE v \in {values[i] : i \in DOMAIN values} :
                     \A i \in DOMAIN values : v <= values[i]
        Greatest == CHOOSE v \in {values[i] : i \in DOMAIN values} :
                        \A i \in DOMAIN values : v >= values[i]
    IN  [report |-> "statistics",
         count |-> n,
         min |-> IF n = 0 THEN NaNum ELSE Num(Least),
         max |-> IF n = 0 THEN NaNum ELSE Num(Greatest),
         mean |-> IF n = 0 THEN NaNum ELSE Num(RoundTenths(Sum(values) * 10, n))]

NoValidData == [report |-> "no valid data"]

\* _analyze_model_year: the statistics of the values left by dropna().
AnalyzeModelYear(raw) == Statistics(ValidValues(raw, "ModelYear", FALSE))

\* _analyze_electric_range: the values left by dropna() and > 0; none left
\* is reported as such.
AnalyzeElectricRange(raw) ==
    LET electric_range == ValidValues(raw, "ElectricRange", TRUE)
    IN  IF Len(electric_range) = 0 THEN NoValidData ELSE Statistics(electric_range)

\* _analyze_base_msrp, as _analyze_electric_range.
AnalyzeBaseMSRP(raw) ==
    LET base_msrp == ValidValues(raw, "BaseMSRP", TRUE)
    IN  IF Len(base_msrp) = 0 THEN NoValidData ELSE Statistics(base_msrp)

\* explore_data prints and assigns nothing; without raw data it only says so.
ExploreData(w0) ==
    LET w == Enter(w0, "explore_data")
    IN  IF w.etl.raw_data = None THEN [w EXCEPT !.output = <<"No data available">>]
        ELSE LET raw == Get(w.etl.raw_data)
             IN  [w EXCEPT !.output = [model_year |-> AnalyzeModelYear(raw),
                                       electric_range |-> AnalyzeElectricRange(raw),
                                       base_msrp |-> AnalyzeBaseMSRP(raw)]]

CleanAndTransform(w0) ==
    LET w == Enter(w0, "clean_and_transform")
    IN  IF w.etl.raw_data = None THEN Raise(w, "ValueError")
        ELSE [w EXCEPT !.etl.cleaned_data = Some(CleanedTable(Get(w.etl.raw_data)))]

\* The steps of a build that can fail: the four _create_*_dimension calls and
\* _create_fact_table, each of which assigns its table as its last statement.
BuildSteps == Len(DimOrder) + 1

\* failAt: 0, or the step that raises (for want of memory, say).  The tables
\* of the steps before it are assigned; the others stay as they were.
CreateDimensionalModel(w0, failAt) ==
    LET w == Enter(w0, "create_dimensional_model")
    IN  IF w.etl.cleaned_data = None THEN Raise(w, "ValueError")
        ELSE LET cleaned == Get(w.etl.cleaned_data)
                 dims == CreateDimensions(cleaned)
                 old == w.etl.dimension_tables
                 assigned == IF failAt = 0 THEN DimNames
                             ELSE {DimOrder[k] : k \in 1..(failAt - 1)}
                 tables == [n \in assigned \cup DOMAIN old |->
                               IF n \in assigned THEN dims[n] ELSE old[n]]
             IN  IF failAt = 0
                 THEN [w EXCEPT !.etl.dimension_tables = tables,
                                !.etl.fact_table = Some(CreateFactTable(cleaned, tables))]
                 ELSE Raise([w EXCEPT !.etl.dimension_tables = tables], "MemoryError")

index_queries ==
    << [name |-> "idx_fact_location", table |-> FactName],
       [name |-> "idx_fact_vehicle", table |-> FactName],
       [name |-> "idx_fact_utility", table |-> FactName],
       [name |-> "idx_fact_time", table |-> FactName],
       [name |-> "idx_location_county", table |-> "dim_location"],
       [name |-> "idx_vehicle_make", table |-> "dim_vehicle"],
       [name |-> "idx_time_year", table |-> "dim_time"] >>

IndexesOn(table) ==
    {index_queries[j].name : j \in {k \in DOMAIN index_queries : index_queries[k].table = table}}

\* ToSql with if_exists='append': the rows are added to the table there is.
ToSqlAppend(st, name, data) ==
    [tables |-> (name :> ((IF name \in DOMAIN st.tables THEN st.tables[name] ELSE <<>>)
                          \o data)) @@ st.tables,
     indexes |-> st.indexes]

\* DataFrame.to_sql(name, conn, if_exists='replace'): the table of that name
\* is dropped, its indexes with it, and created anew from the frame.
ToSql(st, name, data) ==
    [tables |-> (name :> data) @@ st.tables,
     indexes |-> st.indexes \ IndexesOn(name)]

RECURSIVE WriteTables(_, _, _, _)
WriteTables(st, names, data, n) ==
    IF n = 0 THEN st
    ELSE ToSql(WriteTables(st, names, data, n - 1), names[n], data[names[n]])

\* The steps of a load that can fail: one to_sql per table, one execute per
\* index query.
LoadSteps == Len(DimOrder) + 1 + Len(index_queries)

\* What the try block of load_to_warehouse does when its step failAt raises
\* (0: no step is made to fail): [store, error, log].  CREATE INDEX raises by
\* itself on a table the store does not have.
LoadBody(st, dims, fact, failAt) ==
    LET names == SelectSeq(DimOrder, LAMBDA n : n \in DOMAIN dims) \o <<FactName>>
        data == (FactName :> fact) @@ dims
        writeFails == failAt \in 1..Len(names)
        written == IF writeFails THEN failAt - 1 ELSE Len(names)
        afterWrites == WriteTables(st, names, data, written)
        attempted == IF writeFails THEN failAt ELSE Len(names)
        writeLog == [k \in 1..attempted |-> "to_sql " \o names[k]]
        failing == {j \in DOMAIN index_queries :
                        \/ j = failAt - Len(names)
                        \/ index_queries[j].table \notin DOMAIN afterWrites.tables}
        firstFailing == IF failing = {} THEN Len(index_queries) + 1
                        ELSE CHOOSE j \in failing : \A k \in failing : j <= k
        executed == IF failing = {} THEN Len(index_queries) ELSE firstFailing
        indexLog == [j \in 1..executed |-> "execute " \o index_queries[j].name]
    IN  IF writeFails
        THEN [store |-> afterWrites, error |-> "DatabaseError", log |-> writeLog]
        ELSE [store |-> [afterWrites EXCEPT !.indexes =
                            @ \cup {index_queries[j].name : j \in 1..(firstFailing - 1)}],
              error |-> IF failing = {} THEN "none" ELSE "OperationalError",
              log |-> writeLog \o indexLog \o
                      (IF failing = {} THEN <<"commit">> ELSE <<>>)]

\* LoadToWarehouse with conn.close() as the last statement of the try block.
LoadToWarehouseCloseInTry(w0, failAt) ==
    LET w == [w0 EXCEPT !.trace = Append(@, "load_to_warehouse"), !.output = <<>>]
        dims == w.etl.dimension_tables
    IN  IF DOMAIN dims = {} \/ w.etl.fact_table = None THEN [w EXCEPT !.error = "ValueError"]
        ELSE LET body == LoadBody(w.store, dims, Get(w.etl.fact_table), failAt)
             IN  [w EXCEPT !.store = body.store,
                           !.conn = IF body.error = "none" THEN "closed" ELSE "open",
                           !.error = body.error,
                           !.output = <<"connect">> \o body.log \o
                                      (IF body.error = "none" THEN <<"close">> ELSE <<>>)]

\* try: ... finally: conn.close()
LoadToWarehouse(w0, failAt) ==
    LET w == Enter(w0, "load_to_warehouse")
        dims == w.etl.dimension_tables
    IN  IF DOMAIN dims = {} \/ w.etl.fact_table = None THEN Raise(w, "ValueError")
        ELSE LET body == LoadBody(w.store, dims, Get(w.etl.fact_table), failAt)
             IN  [w EXCEPT !.store = body.store,
                           !.conn = "closed",
                           !.error = body.error,
                           !.output = <<"connect">> \o body.log \o <<"close">>]

RECURSIVE ExportTables(_, _, _, _)
ExportTables(content, names, data, n) ==
    IF n = 0 THEN content
    ELSE ("data_warehouse_output/" \o names[n] \o ".csv" :> data[names[n]])
         @@ ExportTables(content, names, data, n - 1)

ExportToCsv(w0) ==
    LET w == Enter(w0, "export_to_csv")
        dims == w.etl.dimension_tables
        names == SelectSeq(DimOrder, LAMBDA n : n \in DOMAIN dims)
                 \o (IF w.etl.fact_table # None THEN <<FactName>> ELSE <<>>)
        data == IF w.etl.fact_table # None
                THEN (FactName :> Get(w.etl.fact_table)) @@ dims ELSE dims
    IN  [w EXCEPT !.files.dirs = @ \cup {"data_warehouse_output"},
                  !.files.content = ExportTables(@, names, data, Len(names))]

\* The lines the report prints; the division raises on a raw table of no rows.
GenerateSummaryReport(w0) ==
    LET w == Enter(w0, "generate_summary_report")
        e == w.etl
        extracted == IF e.raw_data # None THEN Num(Len(Get(e.raw_data))) ELSE NaNum
        printed == [extracted |-> extracted, cleaned |-> NaNum, retention |-> NaNum,
                    dimensions |-> EmptyDict, fact |-> NaNum]
        counted == [printed EXCEPT
                       !.dimensions = [n \in DOMAIN e.dimension_tables |->
                                          Len(e.dimension_tables[n])],
                       !.fact = IF e.fact_table # None
                                THEN Num(Len(Get(e.fact_table))) ELSE NaNum]
    IN  IF e.cleaned_data = None THEN [w EXCEPT !.output = counted]
        ELSE IF e.raw_data = None
             THEN Raise([w EXCEPT !.output = printed], "TypeError")
        ELSE IF Len(Get(e.raw_data)) = 0
             THEN Raise([w EXCEPT !.output =
                            [printed EXCEPT !.cleaned = Num(Len(Get(e.cleaned_data)))]],
                        "ZeroDivisionError")
        ELSE [w EXCEPT !.output =
                 [counted EXCEPT
                     !.cleaned = Num(Len(Get(e.cleaned_data))),
                     !.retention = Num(RoundTenths(Len(Get(e.cleaned_data)) * 100,
                                                   Len(Get(e.raw_data))))]]

Raised(w) == w.error # "none"

\* RunMain with the export outside the try block's order: it runs when
\* export_csv is true, whether or not an earlier stage has raised.
RunMainExportAlways(st, fs, cn, data, export_csv, fault) ==
    LET s1 == {ExtractData(w, data, fault.extract) : w \in {World(NewETL, st, fs, cn)}}
        s2 == {IF Raised(w) THEN w ELSE ExploreData(w) : w \in s1}
        s3 == {IF Raised(w) THEN w ELSE CleanAndTransform(w) : w \in s2}
        s4 == {IF Raised(w) THEN w ELSE CreateDimensionalModel(w, fault.build) : w \in s3}
        s5 == {IF Raised(w) THEN w ELSE LoadToWarehouse(w, fault.load) : w \in s4}
        s6 == {IF ~export_csv THEN w ELSE ExportToCsv(w) : w \in s5}
        s7 == {IF Raised(w) THEN w ELSE GenerateSummaryReport(w) : w \in s6}
    IN  CHOOSE w \in s7 : TRUE

\* main(export_csv), on a new EVDataETL object: a stage runs when no earlier
\* one has raised.  (Each sN is the one world the N-th stage leaves.)
RunMain(st, fs, cn, data, export_csv, fault) ==
    LET s1 == {ExtractData(w, data, fault.extract) : w \in {World(NewETL, st, fs, cn)}}
        s2 == {IF Raised(w) THEN w ELSE ExploreData(w) : w \in s1}
        s3 == {IF Raised(w) THEN w ELSE CleanAndTransform(w) : w \in s2}
        s4 == {IF Raised(w) THEN w ELSE CreateDimensionalModel(w, fault.build) : w \in s3}
        s5 == {IF Raised(w) THEN w ELSE LoadToWarehouse(w, fault.load) : w \in s4}
        s6 == {IF Raised(w) \/ ~export_csv THEN w ELSE ExportToCsv(w) : w \in s5}
        s7 == {IF Raised(w) THEN w ELSE GenerateSummaryReport(w) : w \in s6}
    IN  CHOOSE w \in s7 : TRUE

-----------------------------------------------------------------------------
(* The calls a caller can make                                             *)

Here == World(etl, store, files, conn)

\* The call, made with the arguments args, leaves w behind; the caller's
\* object is etl2.
ReturnFrom(call, args, w, etl2) ==
    /\ etl' = etl2
    /\ store' = w.store
    /\ files' = w.files
    /\ conn' = w.conn
    /\ outcome' = [call |-> call, args |-> args, error |-> w.error,
                   output |-> w.output, trace |-> w.trace]
    /\ UNCHANGED source

Return(call, w, etl2) == ReturnFrom(call, <<>>, w, etl2)

Extract ==
    \E fault \in {"none", "network"} :
        \E w \in {ExtractData(Here, source, fault)} :
            Return("extract_data", w, w.etl) /\ UNCHANGED runs

Explore ==
    \E w \in {ExploreData(Here)} :
        Return("explore_data", w, w.etl) /\ UNCHANGED runs

Clean ==
    \E w \in {CleanAndTransform(Here)} :
        Return("clean_and_transform", w, w.etl) /\ UNCHANGED runs

CreateModel ==
    \E w \in {CreateDimensionalModel(Here, 0)} :
        Return("create_dimensional_model", w, w.etl) /\ UNCHANGED runs

\* create_dimensional_model with a step that raises.
CreateModelFails ==
    \E failAt \in 1..BuildSteps :
        \E w \in {CreateDimensionalModel(Here, failAt)} :
            Return("create_dimensional_model", w, w.etl) /\ UNCHANGED runs

Load ==
    \E failAt \in 0..LoadSteps :
        \E w \in {LoadToWarehouse(Here, failAt)} :
            Return("load_to_warehouse", w, w.etl) /\ UNCHANGED runs

Export ==
    \E w \in {ExportToCsv(Here)} :
        Return("export_to_csv", w, w.etl) /\ UNCHANGED runs

Report ==
    \E w \in {GenerateSummaryReport(Here)} :
        Return("generate_summary_report", w, w.etl) /\ UNCHANGED runs

\* The run got past the load: the load returned and a later stage started.
PastLoad(w) ==
    /\ \E k \in DOMAIN w.trace : w.trace[k] = "load_to_warehouse"
    /\ w.error = "none" \/ w.trace[Len(w.trace)] # "load_to_warehouse"

\* What can be made to go wrong in a run of main: the download, one step of
\* the build, or one step of the load.
MainFaults ==
    {[extract |-> "none", build |-> 0, load |-> 0],
     [extract |-> "network", build |-> 0, load |-> 0]}
    \cup {[extract |-> "none", build |-> k, load |-> 0] : k \in 1..BuildSteps}
    \cup {[extract |-> "none", build |-> 0, load |-> k] : k \in 1..LoadSteps}

Main ==
    \E export_csv \in BOOLEAN, fault \in MainFaults :
        \E w \in {RunMain(store, files, conn, source, export_csv, fault)} :
            /\ ReturnFrom("main", <<export_csv>>, w, etl)
            /\ runs' = IF PastLoad(w)
                       THEN (IF Len(runs) < 2 THEN Append(runs, w.store)
                             ELSE <<runs[2], w.store>>)
                       ELSE runs

\* The state after EVDataETL(data_url), with nothing stored or written yet.
Constructed ==
    /\ etl = NewETL
    /\ store = [tables |-> EmptyDict, indexes |-> {}]
    /\ files = [dirs |-> {}, content |-> EmptyDict]
    /\ conn = "none"
    /\ outcome = [call |-> "__init__", args |-> <<>>, error |-> "none",
                  output |-> <<>>, trace |-> <<>>]
    /\ runs = <<>>

\* The datasets the whole pipeline is run on: one of no rows, a single row,
\* and the sample scenario.
RunDatasets == {<<>>, <<RowPHEV>>, SampleScenario}

Init == source \in RunDatasets /\ Constructed

Next ==
    \/ Extract
    \/ Explore
    \/ Clean
    \/ CreateModel
    \/ Load
    \/ Export
    \/ Report
    \/ Main

\* Every call on one object and every run of main, in any order.
Spec == Init /\ [][Next]_vars

InitData == source \in Datasets /\ Constructed

NextData ==
    \/ Extract
    \/ Explore
    \/ Clean
    \/ CreateModel
    \/ Report

\* The calls that read and build the tables of the object, on every dataset
\* of at most MaxRows sample rows.
SpecData == InitData /\ [][NextData]_vars

\* The publisher adds records to the dataset behind data_url; the runs of
\* main recorded so far were runs on the dataset as it was.
Republish ==
    /\ \E data \in RunDatasets : Len(data) > Len(source) /\ source' = data
    /\ runs' = <<>>
    /\ UNCHANGED <<etl, store, files, conn, outcome>>

\* The object is constructed when the dataset has its first record.
InitStages == source = <<RowPHEV>> /\ Constructed

NextStages ==
    \/ Republish
    \/ Extract
    \/ Clean
    \/ CreateModel
    \/ CreateModelFails
    \/ Load
    \/ Export

\* The calls that read, build and write the tables of one object, with
\* builds that fail partway, while the published dataset grows.
SpecStages == InitStages /\ [][NextStages]_vars

-----------------------------------------------------------------------------
(* Properties                                                              *)

Cleaned == Get(etl.cleaned_data)
Dims == etl.dimension_tables
Fact == Get(etl.fact_table)
ModelBuilt == etl.fact_table # None

\* The on= columns of the merge with a dimension, and the key it brings.
KeyOf(n) ==
    CASE n = "dim_location" -> LocationKey
      [] n = "dim_vehicle" -> VehicleKey
      [] n = "dim_utility" -> UtilityKey
      [] n = "dim_time" -> TimeKey

IdOf(n) ==
    CASE n = "dim_location" -> "location_id"
      [] n = "dim_vehicle" -> "vehicle_id"
      [] n = "dim_utility" -> "utility_id"
      [] n = "dim_time" -> "time_id"

\* C1: the fact table has exactly as many rows as the cleaned table it was
\* built from; no join adds or drops a row.
C1_FactRowCount == ModelBuilt => Len(Fact) = Len(Cleaned)

\* C2: no dimension table has two rows that agree on the columns the fact
\* builder joins on.
C2_NaturalKeysUnique ==
    \A n \in DOMAIN Dims :
        \A i, j \in DOMAIN Dims[n] :
            i # j => Project(Dims[n][i], KeyOf(n)) # Project(Dims[n][j], KeyOf(n))

\* For every row of the joined table, the cleaned record it comes from: the
\* same merges, on the cleaned table with its row numbers as one more column.
Origin ==
    LET numbered == [i \in DOMAIN Cleaned |-> [row |-> i] @@ Cleaned[i]]
        joined == JoinedData(numbered, Dims)
    IN  [k \in DOMAIN joined |-> joined[k].row]

\* C3: every cleaned record has a fact row derived from it, and every fact
\* row derived from a record carries, for each dimension, a key that is not
\* missing, lies in 1..N (N the rows of the dimension table) and is the key
\* of a dimension row with the record's own values in the join columns; also
\* when the record's State, Model Year, Model_Decade or Year_Category is
\* missing.
C3_SurrogateKeys ==
    ModelBuilt =>
        \A i \in DOMAIN Cleaned :
            /\ \E k \in DOMAIN Fact : Origin[k] = i
            /\ \A k \in {m \in DOMAIN Fact : Origin[m] = i}, n \in DimNames :
                   LET id == Fact[k][IdOf(n)]
                   IN  /\ id # NaNum
                       /\ Val(id) \in 1..Len(Dims[n])
                       /\ Project(Dims[n][Val(id)], KeyOf(n)) = Project(Cleaned[i], KeyOf(n))

C3_Witness ==
    /\ ModelBuilt
    /\ outcome.call = "create_dimensional_model"
    /\ \E i, j \in DOMAIN Cleaned, k \in DOMAIN Fact :
           /\ Cleaned[i].State = NaN /\ Cleaned[i].ModelYear = NaNum
           /\ Cleaned[i].Year_Category = NaN
           /\ Cleaned[j].State # NaN
           /\ Origin[k] = i
           /\ Fact[k].location_id # NaNum /\ Fact[k].time_id # NaNum

SampleCleaned ==
    /\ Cleaned[2].ElectricRange = Num(105)
    /\ Cleaned[2].BaseMSRP = Num(0)
    /\ Cleaned[2].ElectricVehicleType = "Unknown"
    /\ Cleaned[2].EV_Type_Code = 0
    /\ Cleaned[3].BaseMSRP = Num(0)

SampleTime ==
    /\ Len(Dims["dim_time"]) = 2
    /\ {Dims["dim_time"][i].Model_Decade : i \in 1..2} = {Num(2020), Num(2010)}

\* C4 as stated: on the sample scenario the cleaned values are 105, 0 and
\* "Unknown" (code 0), the fact table has 3 rows, the time dimension 2 and
\* the vehicle dimension 2.
C4_SampleScenarioAsStated ==
    source = SampleScenario /\ ModelBuilt =>
        /\ SampleCleaned
        /\ Len(Fact) = 3
        /\ SampleTime
        /\ Len(Dims["dim_vehicle"]) = 2

\* C4, amended: on the sample scenario the cleaned values are 105, 0 and
\* "Unknown" (code 0), the fact table has 3 rows, the time dimension 2 rows
\* (decades 2020 and 2010) and the vehicle dimension 3 rows, one per vehicle
\* type (BEV, Unknown, PHEV).
C4_SampleScenario ==
    source = SampleScenario /\ ModelBuilt =>
        /\ SampleCleaned
        /\ Len(Fact) = 3
        /\ SampleTime
        /\ Len(Dims["dim_vehicle"]) = 3
        /\ {Dims["dim_vehicle"][i].ElectricVehicleType : i \in 1..3} = {BEV, "Unknown", PHEV}

C4_Witness ==
    /\ source = SampleScenario
    /\ ModelBuilt
    /\ outcome.call = "create_dimensional_model"
    /\ outcome.error = "none"

\* The place of the blank between the tokens of "POINT (<lon> <lat>)", 0 when
\* loc is not of that form with two numeric tokens.
PointBlank(loc) ==
    LET blanks == {i \in 9..(Len(loc) - 2) :
                      /\ SubSeq(loc, 1, 7) = <<"P", "O", "I", "N", "T", " ", "(">>
                      /\ loc[Len(loc)] = ")"
                      /\ loc[i] = " "
                      /\ IsFloat(SubSeq(loc, 8, i - 1))
                      /\ IsFloat(SubSeq(loc, i + 1, Len(loc) - 1))}
    IN  IF blanks = {} THEN 0 ELSE CHOOSE i \in blanks : TRUE

\* C5: a location "POINT (<lon> <lat>)" with two numeric tokens gives that
\* longitude and latitude; a missing one, the placeholder and any malformed
\* one leave both latitude and longitude missing.
C5_CoordinateParsing ==
    "dim_location" \in DOMAIN Dims =>
        LET location_data == DropDuplicates([i \in DOMAIN Cleaned |->
                                 Project(Cleaned[i], location_cols)])
        IN  \A i \in DOMAIN Dims["dim_location"] :
                LET loc == location_data[i].VehicleLocation
                    row == Dims["dim_location"][i]
                    b == PointBlank(loc)
                IN  IF b # 0
                    THEN /\ row.Longitude = Num(ToFloat(SubSeq(loc, 8, b - 1)))
                         /\ row.Latitude = Num(ToFloat(SubSeq(loc, b + 1, Len(loc) - 1)))
                    ELSE row.Longitude = NaNum /\ row.Latitude = NaNum

AllTables == DimNames \cup {FactName}

\* C6: two runs of main on the same dataset and store leave the same five
\* tables with the same rows, and all the indexes, after the second run as
\* after the first.
C6_Idempotent ==
    /\ \A r \in DOMAIN runs : DOMAIN runs[r].tables = AllTables
    /\ Len(runs) = 2 =>
           /\ runs[1] = runs[2]
           /\ \A n \in AllTables : Len(runs[2].tables[n]) = Len(runs[1].tables[n])
    /\ outcome.call = "main" /\ outcome.error = "none" =>
           /\ runs # <<>>
           /\ store = runs[Len(runs)]
           /\ store.tables[FactName] = CreateFactTable(CleanedTable(source),
                                           CreateDimensions(CleanedTable(source)))

C6_Witness ==
    /\ Len(runs) = 2
    /\ outcome.call = "main"
    /\ outcome.error = "none"
    /\ Len(store.tables[FactName]) = 3

Refused == outcome'.error # "none" /\ UNCHANGED <<etl, store, files>>

\* C7: a stage called before the stage it depends on has completed raises
\* an error and changes neither the object, the store nor the files.
C7_PrerequisiteGuard ==
    [][/\ (outcome'.call = "clean_and_transform" /\ etl.raw_data = None) => Refused
       /\ (outcome'.call = "create_dimensional_model" /\ etl.cleaned_data = None) => Refused
       /\ (outcome'.call = "load_to_warehouse" /\ etl.fact_table = None) => Refused
       /\ (outcome'.call = "export_to_csv" /\ etl.fact_table = None) => Refused]_vars

Events == outcome.output
Occurrences(e) == Cardinality({k \in DOMAIN Events : Events[k] = e})

\* C8: a load that opened the connection has closed it when it returns,
\* whether every step succeeded, a table write failed or an index creation
\* failed; a failure is raised to the caller, and no step is run twice.
C8_ConnectionClosed ==
    /\ conn # "open"
    /\ outcome.call = "load_to_warehouse" /\ Events # <<>> =>
           /\ conn = "closed"
           /\ Events[1] = "connect" /\ Occurrences("connect") = 1
           /\ Events[Len(Events)] = "close" /\ Occurrences("close") = 1
           /\ \A k \in DOMAIN Events : Occurrences(Events[k]) = 1
           /\ Occurrences("commit") = 0 <=> outcome.error # "none"
           /\ outcome.error = "none" =>
                  Len(Events) = LoadSteps + 3 /\ store.indexes = IndexesOn(FactName)
                      \cup IndexesOn("dim_location") \cup IndexesOn("dim_vehicle")
                      \cup IndexesOn("dim_time")

C8_Witness ==
    /\ outcome.call = "load_to_warehouse"
    /\ outcome.error = "DatabaseError"
    /\ conn = "closed"
    /\ Events[Len(Events)] = "close"
    /\ Occurrences("to_sql dim_utility") = 1

\* C9: every cleaned row has EV_Type_Code in {0,1,2} and CAFV_Code in
\* {0,1,2,3}, and a vehicle type or eligibility that is missing, is the
\* placeholder or is any other text not in the lookup table has code 0.
C9_CategoricalCodes ==
    etl.cleaned_data # None =>
        \A i \in DOMAIN Cleaned :
            LET raw == Get(etl.raw_data)[i]
            IN  /\ Cleaned[i].EV_Type_Code \in {0, 1, 2}
                /\ Cleaned[i].CAFV_Code \in {0, 1, 2, 3}
                /\ raw.ElectricVehicleType \notin {BEV, PHEV} => Cleaned[i].EV_Type_Code = 0
                /\ raw.CAFV \notin {CAFVEligible, CAFVLowRange, CAFVNotResearched}
                       => Cleaned[i].CAFV_Code = 0

C9_Witness ==
    /\ etl.cleaned_data # None
    /\ outcome.call = "clean_and_transform"
    /\ \E i, j, k \in DOMAIN Cleaned :
           /\ Get(etl.raw_data)[i].ElectricVehicleType = NaN
           /\ Get(etl.raw_data)[j].ElectricVehicleType = "Fuel Cell"
           /\ Get(etl.raw_data)[k].CAFV = "Unknown"
           /\ Cleaned[i].EV_Type_Code = 0 /\ Cleaned[j].EV_Type_Code = 0
           /\ Cleaned[k].CAFV_Code = 0

\* C10: with cleaned data present the report completes without an error and
\* its retention figure is cleaned rows / raw rows x 100, to one decimal.
C10_ReportCompletes ==
    outcome.call = "generate_summary_report" /\ etl.cleaned_data # None =>
        /\ outcome.error = "none"
        /\ LET tenths == Val(outcome.output.retention)
               rawRows == Len(Get(etl.raw_data))
           IN  /\ 2 * (tenths * rawRows - 1000 * Len(Cleaned)) <= rawRows
               /\ 2 * (1000 * Len(Cleaned) - tenths * rawRows) <= rawRows

LoadWrote == outcome.call = "load_to_warehouse" /\ Events # <<>>
ExportWrote == outcome.call = "export_to_csv" /\ (DOMAIN Dims # {} \/ ModelBuilt)

CsvOf(n) == "data_warehouse_output/" \o n \o ".csv"

\* The five tables of one build from the cleaned data the object holds now.
CurrentBuild ==
    LET dims == CreateDimensions(Cleaned)
    IN  (FactName :> CreateFactTable(Cleaned, dims)) @@ dims

\* C11: whenever load_to_warehouse or export_to_csv writes tables, the
\* object holds the fact table and the four dimension tables of one build
\* from its current cleaned_data, and these are the tables written: the five
\* files of an export, the five tables of the store after a load that
\* raised nothing.
C11_TablesBuiltTogether ==
    LoadWrote \/ ExportWrote =>
        /\ etl.cleaned_data # None
        /\ ModelBuilt
        /\ DOMAIN Dims = DimNames
        /\ \A n \in DimNames : Dims[n] = CurrentBuild[n]
        /\ Fact = CurrentBuild[FactName]
        /\ ExportWrote =>
               \A n \in AllTables :
                   /\ CsvOf(n) \in DOMAIN files.content
                   /\ files.content[CsvOf(n)] = CurrentBuild[n]
        /\ LoadWrote /\ outcome.error = "none" => store.tables = CurrentBuild

\* The stages of main(export_csv), in the order of its calls.
MainOrder(export_csv) ==
    <<"extract_data", "explore_data", "clean_and_transform",
      "create_dimensional_model", "load_to_warehouse">>
    \o (IF export_csv THEN <<"export_to_csv">> ELSE <<>>)
    \o <<"generate_summary_report">>

\* The stage that raises err in a run of main.
StageOf(err) ==
    CASE err = "RequestException" -> "extract_data"
      [] err = "MemoryError" -> "create_dimensional_model"
      [] err \in {"DatabaseError", "OperationalError"} -> "load_to_warehouse"
      [] err \in {"ZeroDivisionError", "TypeError"} -> "generate_summary_report"
      [] OTHER -> "no stage"

\* C12: the stages main has run are a beginning of extract, explore,
\* clean/transform, build, load, export (there if and only if export_csv is
\* true), summarize, each once; main returns without an error only when all
\* of them have run, and when a stage raises it is the last stage run and
\* its error is the error main raises.
C12_MainOrder ==
    outcome.call = "main" =>
        LET order == MainOrder(outcome.args[1])
            ran == outcome.trace
        IN  /\ Len(ran) \in 1..Len(order)
            /\ ran = SubSeq(order, 1, Len(ran))
            /\ outcome.error = "none" => ran = order
            /\ outcome.error # "none" => ran[Len(ran)] = StageOf(outcome.error)

C12_Witness ==
    /\ outcome.call = "main"
    /\ outcome.args = <<TRUE>>
    /\ outcome.error = "OperationalError"
    /\ outcome.trace[Len(outcome.trace)] = "load_to_warehouse"
    /\ Len(outcome.trace) = 5

\* C13: after clean_and_transform every row with a Model Year has a
\* Year_Category, never missing: "Pre-2015" for a year up to 2015,
\* "2015-2020" for 2016 to 2020 and "2021+" for every year from 2021 upward.
C13_YearCategory ==
    etl.cleaned_data # None =>
        \A i \in DOMAIN Cleaned :
            Cleaned[i].ModelYear # NaNum =>
                LET y == Val(Cleaned[i].ModelYear)
                IN  Cleaned[i].Year_Category =
                        IF y <= 2015 THEN "Pre-2015"
                        ELSE IF y <= 2020 THEN "2015-2020"
                        ELSE "2021+"

\* The field of the explorer's output and its filter, per analysed column.
Analysed ==
    {[col |-> "ModelYear", field |-> "model_year", positive_only |-> FALSE],
     [col |-> "ElectricRange", field |-> "electric_range", positive_only |-> TRUE],
     [col |-> "BaseMSRP", field |-> "base_msrp", positive_only |-> TRUE]}

\* C14: explore_data on raw data raises nothing and leaves the object as it
\* was, and for each of Model Year, Electric Range and Base MSRP of which the
\* filter (missing values; for range and price also values not above 0)
\* drops every value, it reports that there is no valid data and computes
\* no statistic.
C14_NoValidData ==
    [][outcome'.call = "explore_data" /\ etl.raw_data # None =>
          /\ outcome'.error = "none"
          /\ UNCHANGED <<etl, store, files>>
          /\ \A a \in Analysed :
                 ValidValues(Get(etl.raw_data), a.col, a.positive_only) = <<>>
                     => outcome'.output[a.field] = NoValidData]_vars

=============================================================================
